---- MODULE Spec2Model ----
(***************************************************************************)
(* Intake workflow of the Gabar AI / Athena integration: the webhook       *)
(* variants that enqueue intake records, the dispatcher trigger            *)
(* (processIntakeQueue), the patient-creation stage (createAthenaPatient)  *)
(* and the reconciler script (reprocessFailedIntakes), over the Firestore  *)
(* collections and Pub/Sub topics they share.                              *)
(*                                                                         *)
(* Firestore documents are records; a JS null/undefined field is Null      *)
(* (the empty sequence) and a set field is a one-element sequence.  Intake *)
(* record ids are the positions in the sequence `queue`.  Time is counted  *)
(* in minutes.                                                             *)
(***************************************************************************)
EXTENDS Integers, Sequences, FiniteSets, TLC

(* ---------------------------- bounds ---------------------------------- *)
MaxQueue == 2
MaxRecords == 1
MaxInvocations == 2
MaxErrors == 2
MaxRequeues == 2
MaxPatients == 2
MaxLogged == 1
MaxRefreshers == 2
MaxRefreshes == 2
\* pending documents in the queue when the dispatcher is triggered
MaxPending == 12
\* length of the digit strings handed to the phone normalisers
MaxPhoneLen == 11

(* ---------------------- program constants ----------------------------- *)
FifteenMinutes == 15
BatchLimit == 10
\* 600 s, 3600 s and 3000000 ms, in minutes
SafetyBuffer == 10
DefaultExpiresIn == 60
SetupLifetime == 50

Null == <<>>
Some(v) == <<v>>
IsSet(f) == f # Null

Min(a, b) == IF a < b THEN a ELSE b
Bump(n, cap) == Min(n + 1, cap)

Ids == 1..MaxQueue
Invocations == 1..MaxInvocations
Refreshers == 1..MaxRefreshers

(* -------------------- data normalisation helpers ---------------------- *)
\* a phone is a sequence of characters: 0..9 are the digits, any other
\* number stands for a character that is not a digit ('+', '-', ' ', ...)
RECURSIVE StripNonDigits(_)
StripNonDigits(s) ==
    IF s = <<>> THEN <<>>
    ELSE IF Head(s) \in 0..9 THEN <<Head(s)>> \o StripNonDigits(Tail(s))
    ELSE StripNonDigits(Tail(s))

cleanPhone_NoExchangeCheck(ph) ==
    IF ph = <<>> THEN <<>>
    ELSE LET digits == StripNonDigits(ph)
             stripped == IF Len(digits) = 11 /\ digits[1] = 1
                         THEN Tail(digits) ELSE digits
         IN  IF /\ Len(stripped) = 10
                /\ stripped[1] >= 2 /\ stripped[1] <= 9
             THEN stripped ELSE <<>>

cleanPhone(phone) ==
    IF phone = <<>> THEN <<>>
    ELSE LET digits == StripNonDigits(phone)
             cleaned == IF Len(digits) = 11 /\ digits[1] = 1
                        THEN Tail(digits) ELSE digits
         IN  IF /\ Len(cleaned) = 10
                /\ cleaned[1] >= 2 /\ cleaned[1] <= 9
                /\ cleaned[4] >= 2 /\ cleaned[4] <= 9
             THEN cleaned ELSE <<>>

parsePhoneNumber(phone) == cleanPhone(phone)

\* dates are drawn from DateInputs; new Date(x) accepts the ISO date and
\* rejects the other two, and no month name occurs in them
DateInputs == {"", "1990-01-15", "not a date"}
parseDate(dateInput) ==
    IF dateInput = "" THEN ""
    ELSE IF dateInput = "1990-01-15" THEN "1990-01-15"
    ELSE ""

formatDateForAthena(isoDate) ==
    IF isoDate = "" THEN ""
    ELSE IF isoDate = "1990-01-15" THEN "01/15/1990"
    ELSE isoDate

(* --------------------------- requests --------------------------------- *)
GoodPhone == <<7, 0, 2, 5, 5, 5, 1, 2, 3, 4>>

FullVariables ==
    [first_name |-> "Test", last_name |-> "Patient",
     date_of_birth |-> "1990-01-15", phone |-> GoodPhone,
     email |-> "t@example.com", zip |-> "89101",
     selected_appointment_id |-> "12345"]

NoDobVariables == [FullVariables EXCEPT !.date_of_birth = ""]

VariableSets == {FullVariables, NoDobVariables}

CallStatuses == {"completed", "no-answer"}

Requests == [status : CallStatuses, variables : VariableSets]

(* ----------------------------- state ----------------------------------- *)
VARIABLES
    clock,               \* Date.now(), in minutes
    queue,               \* collection patient_intake_queue: id -> document
    patients,            \* collection patients: id -> athenaPatientId
    errors,              \* collection errors: documents per <<type, record id>>,
                         \* and the timestamp of the document _schema_example
    bland_failed_calls,  \* collection bland_failed_calls: document count
    bland_incomplete,    \* collection bland_incomplete_records: document count
    webhook_errors,      \* collection webhook_errors: document count
    api_token,           \* document api_tokens/athena-current
    create_patient,      \* topic create-patient: undelivered/unacked messages
    book_appointment,    \* topic book-appointment
    patient_activity,    \* topic patient-activity
    athena,              \* remote API: patients created per originating record
    pq,                  \* processIntakeQueue invocations
    recon,               \* reprocessFailedIntakes run
    requeues,            \* per record: resets to pending done by the reconciler
    ret,                 \* outcome of the handler that finished last
    rt,                  \* refreshAthenaToken / refreshTokenHttp runs
    error_notifications, \* topic error-notifications: messages published
    token_refresh_log,   \* collection token_refresh_log: document count
    appointments,        \* collection appointments: documents keyed by record id
    appointments_added,  \* collection appointments: documents added with add()
    appointment_log,     \* collection appointment_log: document count
    phone,               \* a phone as it is handed to the normalisers
    cleaned,             \* what cleanPhone(phone) returned, once called
    parsed,              \* what parsePhoneNumber(phone) returned, once called
    cp                   \* a createAthenaPatient run between two of its writes

vars == <<clock, queue, patients, errors, bland_failed_calls, bland_incomplete,
          webhook_errors, api_token, create_patient, book_appointment,
          patient_activity, athena, pq, recon, requeues, ret, rt,
          error_notifications, token_refresh_log, appointments,
          appointments_added, appointment_log, phone, cleaned, parsed, cp>>

stores == <<patients, errors, bland_failed_calls, bland_incomplete,
            webhook_errors, api_token>>
topics == <<create_patient, book_appointment, patient_activity>>
phoneStage == <<phone, cleaned, parsed>>
tokenStage == <<rt, error_notifications, token_refresh_log>>
bookingStage == <<appointments, appointments_added, appointment_log>>

ErrorTypes == {"intake_processing", "patient_creation", "bland_webhook",
               "token_refresh", "appointment_booking"}
\* handler-level errors carry no record id (0); patient_creation and
\* appointment_booking errors carry the message's data
ErrorKeys == (ErrorTypes \X {0})
             \cup ({"patient_creation", "appointment_booking"} \X Ids)

\* errors/_schema_example, the document the setup script writes
SchemaExample == <<"_schema_example", 0>>

\* firestore.collection('errors').add({type, ...}) for record id (0: none)
AddError(errs, type, id) ==
    [errs EXCEPT ![<<type, id>>] = Bump(@, MaxErrors)]

\* the document stored by a first refreshAthenaToken run at time 0 with the
\* default expires_in of 3600 s and the 600 s safety buffer
FirstToken == [token |-> "access_token",
               expiresAt |-> DefaultExpiresIn - SafetyBuffer,
               refreshCount |-> Some(0)]

\* op: the handler; id: the intake record it worked on or created (0: none);
\* code: HTTP status (0: not an HTTP handler); result: the response body's
\* kind, or "ok"/"throw"; posted: the handler sent its request (the
\* patient-creation POST, the booking PUT) to the remote API
NoRet == [op |-> "none", id |-> 0, code |-> 0, result |-> "",
          posted |-> FALSE, processed |-> 0]

IdlePq == [pc |-> "idle", docs |-> <<>>, size |-> 0, processedCount |-> 0,
           snap |-> <<>>]
IdleCp == [pc |-> "idle", m |-> Null, pid |-> 0]
IdleRecon == [pc |-> "idle", fifteenMinutesAgo |-> 0, snap |-> <<>>, i |-> 1]
IdleRt == [pc |-> "idle", now |-> 0, expires_in |-> Null, tokenData |-> Null]

Init ==
    /\ clock = 0
    /\ queue = <<>>
    /\ patients = [r \in Ids |-> Null]
    /\ errors = [k \in ErrorKeys \cup {SchemaExample} |->
                    IF k = SchemaExample THEN Null ELSE 0]
    /\ bland_failed_calls = 0
    /\ bland_incomplete = 0
    /\ webhook_errors = 0
    /\ api_token \in {Null, Some(FirstToken)}
    /\ create_patient = {}
    /\ book_appointment = {}
    /\ patient_activity = {}
    /\ athena = [r \in Ids |-> 0]
    /\ pq = [i \in Invocations |-> IdlePq]
    /\ recon = IdleRecon
    /\ requeues = [r \in Ids |-> 0]
    /\ ret = NoRet
    /\ rt = [i \in Refreshers |-> IdleRt]
    /\ error_notifications = 0
    /\ token_refresh_log = 0
    /\ appointments = [r \in Ids |-> Null]
    /\ appointments_added = 0
    /\ appointment_log = 0
    /\ phone = GoodPhone
    /\ cleaned = Null
    /\ parsed = Null
    /\ cp = IdleCp

(* --------------------------- the clock -------------------------------- *)
\* Date.now() advances to a later one of the instants in `times`
Tick(times) ==
    /\ UNCHANGED cp
    /\ UNCHANGED phoneStage
    /\ \E t \in times : t > clock /\ clock' = t
    /\ UNCHANGED <<queue, stores, topics, athena, pq, recon, requeues, ret,
                   tokenStage, bookingStage>>

(* ------------------------ intake documents ---------------------------- *)
\* the fields every handler reads of a queued document; status 'pending'
IntakeRecord_Processing(payload, source, retryCount) ==
    [payload |-> payload, source |-> source, status |-> "processing",
     processingStarted |-> Null, completedAt |-> Null, errorAt |-> Null,
     error |-> Null, athenaPatientId |-> Null, retryCount |-> retryCount,
     appointmentBooked |-> FALSE]

IntakeRecord(payload, source, retryCount) ==
    [payload |-> payload, source |-> source, status |-> "pending",
     processingStarted |-> Null, completedAt |-> Null, errorAt |-> Null,
     error |-> Null, athenaPatientId |-> Null, retryCount |-> retryCount,
     appointmentBooked |-> FALSE]

WebhookRet(id, code, result) ==
    [NoRet EXCEPT !.op = "blandWebhook", !.id = id, !.code = code,
                  !.result = result]

(* ---------- webhook, functions/bland-webhook/index.js ----------------- *)
\* patientData of lines 129-150; this variant stores no appointmentId
FunctionsPatientData(v) ==
    [firstName |-> v.first_name, lastName |-> v.last_name,
     dateOfBirth |-> parseDate(v.date_of_birth),
     phone |-> parsePhoneNumber(v.phone), email |-> v.email,
     zip |-> v.zip, appointmentId |-> ""]

FunctionsValid(p) ==
    /\ p.firstName # "" /\ p.lastName # "" /\ p.dateOfBirth # ""
    /\ ~(p.email = "" /\ p.phone = <<>> /\ p.zip = "")

\* fail: "none", or the publish that throws: "activity" (patient-activity)
\* or "trigger" (process-patient-queue, published when getHours() is 8..18)
ActivityMsg(patientId, activityType) ==
    [patientId |-> patientId, activityType |-> activityType]

blandWebhookFunctions(req, fail) ==
    LET p == FunctionsPatientData(req.variables)
        id == Len(queue) + 1
    IN
    /\ UNCHANGED cp
    /\ UNCHANGED phoneStage
    /\ UNCHANGED <<tokenStage, bookingStage>>
    /\ UNCHANGED <<clock, patients, errors, api_token, create_patient,
                   book_appointment, athena, pq, recon, requeues>>
    /\ IF req.status # "completed" /\ req.status # "success"
       THEN /\ bland_failed_calls' = Bump(bland_failed_calls, MaxLogged)
            /\ ret' = WebhookRet(0, 200, "not_processed")
            /\ UNCHANGED <<queue, bland_incomplete, webhook_errors,
                           patient_activity>>
       ELSE IF ~FunctionsValid(p)
       THEN /\ bland_incomplete' = Bump(bland_incomplete, MaxLogged)
            /\ ret' = WebhookRet(0, 200, "not_processed")
            /\ UNCHANGED <<queue, bland_failed_calls, webhook_errors,
                           patient_activity>>
       ELSE /\ queue' = Append(queue, IntakeRecord(p, "bland_ai", Null))
            /\ patient_activity' =
                  IF fail = "activity" THEN patient_activity
                  ELSE patient_activity \cup
                          {ActivityMsg(Some(id), "INTAKE_RECEIVED")}
            /\ webhook_errors' = IF fail = "none" THEN webhook_errors
                                 ELSE Bump(webhook_errors, MaxLogged)
            /\ ret' = IF fail = "none"
                      THEN WebhookRet(id, 200, "success")
                      ELSE WebhookRet(id, 500, "error")
            /\ UNCHANGED <<bland_failed_calls, bland_incomplete>>

(* --------------- webhook, unnamed/part_001 (cleaned data) ------------- *)
CleanedPatientData(v) ==
    [firstName |-> v.first_name, lastName |-> v.last_name,
     dateOfBirth |-> v.date_of_birth, phone |-> v.phone, email |-> v.email,
     zip |-> v.zip, appointmentId |-> v.selected_appointment_id]

blandWebhookCleaned(req, pubFails) ==
    LET id == Len(queue) + 1
    IN
    /\ UNCHANGED cp
    /\ UNCHANGED phoneStage
    /\ queue' = Append(queue,
                       IntakeRecord(CleanedPatientData(req.variables),
                                    "bland_ai", Null))
    /\ ret' = IF pubFails
              THEN WebhookRet(id, 500, "error")
              ELSE WebhookRet(id, 200, "success")
    /\ UNCHANGED <<tokenStage, bookingStage>>
    /\ UNCHANGED <<clock, stores, topics, athena, pq, recon, requeues>>

(* --------------- webhook, unnamed/part_000 (lines 277-358) ------------ *)
\* the document is added as in part_001; line 331 then reads appointmentData,
\* which is declared nowhere, so the handler throws before it publishes and
\* the catch block answers 500
blandWebhookPipeline(req) ==
    LET id == Len(queue) + 1
    IN
    /\ UNCHANGED cp
    /\ UNCHANGED phoneStage
    /\ queue' = Append(queue,
                       IntakeRecord(CleanedPatientData(req.variables),
                                    "bland_ai", Null))
    /\ ret' = WebhookRet(id, 500, "error")
    /\ UNCHANGED <<tokenStage, bookingStage>>
    /\ UNCHANGED <<clock, stores, topics, athena, pq, recon, requeues>>

(* -------- webhook, unnamed/part_002 (signature check, direct publish) -- *)
SignedPatientData(v) ==
    [firstName |-> v.first_name, lastName |-> v.last_name,
     dateOfBirth |-> v.date_of_birth, phone |-> v.phone, email |-> v.email,
     zip |-> v.zip, appointmentId |-> v.selected_appointment_id]

Message(id, payload) == [id |-> id, payload |-> payload]

blandWebhookSigned(req, pubFails) ==
    LET p == SignedPatientData(req.variables)
        id == Len(queue) + 1
    IN
    /\ UNCHANGED cp
    /\ UNCHANGED phoneStage
    /\ queue' = Append(queue, IntakeRecord(p, "bland_webhook", Some(0)))
    /\ IF pubFails
       THEN /\ errors' = AddError(errors, "bland_webhook", 0)
            /\ ret' = WebhookRet(id, 500, "error")
            /\ UNCHANGED create_patient
       ELSE /\ create_patient' = create_patient \cup {Message(id, p)}
            /\ ret' = WebhookRet(id, 200, "success")
            /\ UNCHANGED errors
    /\ UNCHANGED <<tokenStage, bookingStage>>
    /\ UNCHANGED <<clock, patients, bland_failed_calls, bland_incomplete,
                   webhook_errors, api_token, book_appointment,
                   patient_activity, athena, pq, recon, requeues>>

\* the x-bland-signature header of a request: absent, the HMAC of the body
\* under the webhook secret, or anything else
Signatures == {"absent", "valid", "invalid"}

\* lines 16-125 with the check of lines 20-33.  webhookSecret: the secret
\* is configured (line 14)
blandWebhookVerified(req, signature, webhookSecret, pubFails) ==
    IF signature # "absent" /\ webhookSecret /\ signature # "valid"
    THEN /\ ret' = WebhookRet(0, 401, "invalid_signature")
         /\ UNCHANGED <<phoneStage, tokenStage, bookingStage, cp>>
         /\ UNCHANGED <<clock, queue, stores, topics, athena, pq, recon,
                        requeues>>
    ELSE blandWebhookSigned(req, pubFails)

(* ------------- dispatcher trigger, unnamed/part_004 ------------------- *)
RECURSIVE IdsWhere(_, _, _)
\* ids r >= from of the documents of q whose status is in statuses, ascending
IdsWhere(q, statuses, from) ==
    IF from > Len(q) THEN <<>>
    ELSE IF q[from].status \in statuses
         THEN <<from>> \o IdsWhere(q, statuses, from + 1)
         ELSE IdsWhere(q, statuses, from + 1)

Take_All(s, n) == s

Take(s, n) == IF Len(s) <= n THEN s ELSE SubSeq(s, 1, n)

PendingSnapshot_WrongStatus(q) == Take(IdsWhere(q, {"queued"}, 1), BatchLimit)

\* lines 17-20: where('status','==','pending').limit(10).get()
PendingSnapshot(q) == Take(IdsWhere(q, {"pending"}, 1), BatchLimit)

\* lines 34-37: doc.ref.update({status:'processing', processingStarted})
ClaimWrite_KeepsPending(rec, now) ==
    [rec EXCEPT !.processingStarted = Some(now)]

ClaimWrite(rec, now) ==
    [rec EXCEPT !.status = "processing", !.processingStarted = Some(now)]

\* lines 17-29: the query; an empty snapshot returns {processed: 0}.
\* size is snapshot.size, processedCount the counter of line 29, snap the
\* whole of snapshot.docs and docs the part of it the loop has yet to visit
pqQuery(i) ==
    /\ UNCHANGED cp
    /\ UNCHANGED phoneStage
    /\ pq[i].pc = "idle"
    /\ LET docs == PendingSnapshot(queue)
       IN  IF docs = <<>>
           THEN /\ ret' = [NoRet EXCEPT !.op = "processIntakeQueue",
                                         !.result = "ok"]
                /\ UNCHANGED pq
           ELSE /\ pq' = [pq EXCEPT ![i] = [pc |-> "loop", docs |-> docs,
                                             size |-> Len(docs),
                                             processedCount |-> 0,
                                             snap |-> docs]]
                /\ UNCHANGED ret
    /\ UNCHANGED <<tokenStage, bookingStage>>
    /\ UNCHANGED <<clock, queue, stores, topics, athena, recon, requeues>>

\* lines 30-51, 58-69: one iteration of the loop: mark the document as
\* processing, then publish {id, ...patientData}; a failed publish is logged
\* to errors and rethrown; after the last document {processed:
\* processedCount} is returned.  patientData is the snapshot's copy of the
\* payload, which no handler ever changes.
pqStep(i, pubFails) ==
    /\ UNCHANGED cp
    /\ UNCHANGED phoneStage
    /\ pq[i].pc = "loop"
    /\ LET r == Head(pq[i].docs)
           rest == Tail(pq[i].docs)
       IN  /\ queue' = [queue EXCEPT ![r] = ClaimWrite(@, clock)]
           /\ IF pubFails
              THEN /\ errors' = AddError(errors, "intake_processing", 0)
                   /\ pq' = [pq EXCEPT ![i] = IdlePq]
                   /\ ret' = [NoRet EXCEPT !.op = "processIntakeQueue",
                                           !.id = r, !.result = "throw"]
                   /\ UNCHANGED create_patient
              ELSE /\ create_patient' =
                         create_patient \cup {Message(r, queue[r].payload)}
                   /\ UNCHANGED errors
                   /\ IF rest = <<>>
                      THEN /\ pq' = [pq EXCEPT ![i] = IdlePq]
                           /\ ret' = [NoRet EXCEPT
                                        !.op = "processIntakeQueue",
                                        !.id = r, !.result = "ok",
                                        !.processed =
                                           pq[i].processedCount + 1]
                      ELSE /\ pq' = [pq EXCEPT
                                       ![i].docs = rest,
                                       ![i].processedCount = @ + 1]
                           /\ UNCHANGED ret
    /\ UNCHANGED <<tokenStage, bookingStage>>
    /\ UNCHANGED <<clock, patients, bland_failed_calls, bland_incomplete,
                   webhook_errors, api_token, book_appointment,
                   patient_activity, athena, recon, requeues>>

\* lines 34-37, 58-69: the update of an iteration throws: nothing is written
\* to the document, the error is logged to errors and rethrown
pqStepUpdateFails(i) ==
    /\ pq[i].pc = "loop"
    /\ errors' = AddError(errors, "intake_processing", 0)
    /\ pq' = [pq EXCEPT ![i] = IdlePq]
    /\ ret' = [NoRet EXCEPT !.op = "processIntakeQueue",
                            !.id = Head(pq[i].docs), !.result = "throw"]
    /\ UNCHANGED <<phoneStage, tokenStage, bookingStage, cp>>
    /\ UNCHANGED <<clock, queue, patients, bland_failed_calls,
                   bland_incomplete, webhook_errors, api_token, topics,
                   athena, recon, requeues>>

(* ------------ patient creation, functions/patient-creator ------------- *)
\* lines 250-254
CompletedWrite(rec, athenaPatientId, now) ==
    [rec EXCEPT !.status = "completed",
                !.athenaPatientId = Some(athenaPatientId),
                !.completedAt = Some(now)]

\* lines 298-302
ErrorWrite(rec, message, now) ==
    [rec EXCEPT !.status = "error", !.error = Some(message),
                !.errorAt = Some(now)]

ValidationError_NoDobCheck(p) ==
    IF p.firstName = "" \/ p.lastName = ""
    THEN "Missing required fields"
    ELSE IF p.email = "" /\ cleanPhone(p.phone) = <<>> /\ p.zip = ""
    THEN "At least one contact method is required"
    ELSE ""

\* lines 191-199: the validation error of a payload, "" when it is valid
ValidationError(p) ==
    IF p.firstName = "" \/ p.lastName = ""
       \/ formatDateForAthena(p.dateOfBirth) = ""
    THEN "Missing required fields"
    ELSE IF p.email = "" /\ cleanPhone(p.phone) = <<>> /\ p.zip = ""
    THEN "At least one contact method is required"
    ELSE ""

\* lines 162-199: the error thrown before the POST, "" when there is none
PreflightError(p) ==
    IF api_token = Null THEN "No valid token found"
    ELSE ValidationError(p)

BookingMsg_WrongPatient(patientId, appointmentId, originalRecordId) ==
    [patientId |-> 0, appointmentId |-> appointmentId,
     originalRecordId |-> originalRecordId]

\* lines 259-264: the message published to book-appointment
BookingMsg(patientId, appointmentId, originalRecordId) ==
    [patientId |-> patientId, appointmentId |-> appointmentId,
     originalRecordId |-> originalRecordId]

PatientCreationFailed_Unlogged(m, q, message, posted) ==
    /\ UNCHANGED errors
    /\ queue' = [q EXCEPT ![m.id] = ErrorWrite(@, message, clock)]
    /\ ret' = [NoRet EXCEPT !.op = "createAthenaPatient", !.id = m.id,
                            !.result = "throw", !.posted = posted]

PatientCreationFailed_Swallowed(m, q, message, posted) ==
    /\ errors' = AddError(errors, "patient_creation", m.id)
    /\ queue' = [q EXCEPT ![m.id] = ErrorWrite(@, message, clock)]
    /\ ret' = [NoRet EXCEPT !.op = "createAthenaPatient", !.id = m.id,
                            !.result = "ok", !.posted = posted]

\* lines 282-305: the catch block; q is the queue as the try block left it
PatientCreationFailed(m, q, message, posted) ==
    /\ errors' = AddError(errors, "patient_creation", m.id)
    /\ queue' = [q EXCEPT ![m.id] = ErrorWrite(@, message, clock)]
    /\ ret' = [NoRet EXCEPT !.op = "createAthenaPatient", !.id = m.id,
                            !.result = "throw", !.posted = posted]

\* m: the delivered message; remote: what the POST does ("fail", "new": a
\* new remote patient, "dup": the id of a patient it already holds);
\* pubFails: "none" or the publish that throws ("book", "activity");
\* ack: the message leaves the topic (otherwise it is delivered again)
createAthenaPatient(m, remote, pubFails, ack) ==
    LET p == m.payload
        r == m.id
        pre == PreflightError(p)
    IN
    /\ UNCHANGED cp
    /\ UNCHANGED phoneStage
    /\ m \in create_patient
    /\ create_patient' = IF ack THEN create_patient \ {m} ELSE create_patient
    /\ UNCHANGED <<tokenStage, bookingStage>>
    /\ UNCHANGED <<clock, bland_failed_calls, bland_incomplete,
                   webhook_errors, api_token, pq, recon, requeues>>
    /\ IF pre # ""
       THEN /\ PatientCreationFailed(m, queue, pre, FALSE)
            /\ UNCHANGED <<patients, book_appointment, patient_activity,
                           athena>>
       ELSE IF remote = "fail"
       THEN /\ PatientCreationFailed(m, queue, "Request failed", TRUE)
            /\ UNCHANGED <<patients, book_appointment, patient_activity,
                           athena>>
       ELSE \E pid \in 1..MaxPatients :
            /\ \/ remote = "new" /\ pid = athena[r] + 1
               \/ remote = "dup" /\ pid <= athena[r]
            /\ athena' = [athena EXCEPT ![r] = IF remote = "new" THEN pid ELSE @]
            /\ patients' = [patients EXCEPT ![r] = Some(pid)]
            /\ LET done == [queue EXCEPT ![r] = CompletedWrite(@, pid, clock)]
                   booking == p.appointmentId # ""
               IN
               /\ pubFails = "book" => booking
               /\ book_appointment' =
                     IF booking /\ pubFails # "book"
                     THEN book_appointment \cup
                             {BookingMsg(pid, p.appointmentId, r)}
                     ELSE book_appointment
               /\ patient_activity' =
                     IF pubFails = "none"
                     THEN patient_activity \cup
                             {ActivityMsg(Some(pid), "PATIENT_CREATED")}
                     ELSE patient_activity
               /\ IF pubFails = "none"
                  THEN /\ queue' = done
                       /\ UNCHANGED errors
                       /\ ret' = [NoRet EXCEPT !.op = "createAthenaPatient",
                                               !.id = r, !.result = "ok",
                                               !.posted = TRUE]
                  ELSE PatientCreationFailed(m, done, "Publish failed", TRUE)

\* createAthenaPatient as the steps between which other handlers can run.
\* lines 156-247: the run up to patients.doc(id).set(); a run that fails
\* before that goes through the catch block at once
cpPost(m, remote, ack) ==
    LET p == m.payload
        r == m.id
        pre == PreflightError(p)
    IN
    /\ cp.pc = "idle"
    /\ m \in create_patient
    /\ UNCHANGED <<phoneStage, tokenStage, bookingStage>>
    /\ UNCHANGED <<clock, bland_failed_calls, bland_incomplete,
                   webhook_errors, api_token, pq, recon, requeues,
                   book_appointment, patient_activity>>
    /\ IF pre # "" \/ remote = "fail"
       THEN /\ PatientCreationFailed(m, queue,
                                     IF pre # "" THEN pre
                                     ELSE "Request failed", pre = "")
            /\ create_patient' = IF ack THEN create_patient \ {m}
                                 ELSE create_patient
            /\ UNCHANGED <<patients, athena, cp>>
       ELSE \E pid \in 1..MaxPatients :
            /\ \/ remote = "new" /\ pid = athena[r] + 1
               \/ remote = "dup" /\ pid <= athena[r]
            /\ athena' = [athena EXCEPT ![r] = IF remote = "new" THEN pid ELSE @]
            /\ patients' = [patients EXCEPT ![r] = Some(pid)]
            /\ cp' = [pc |-> "set", m |-> Some(m), pid |-> pid]
            /\ UNCHANGED <<queue, errors, ret, create_patient>>

\* lines 249-305: the update of the intake document, the two publishes, and
\* the catch block when one of them throws
cpFinish(pubFails, ack) ==
    /\ cp.pc = "set"
    /\ LET m == cp.m[1]
           p == m.payload
           r == m.id
           pid == cp.pid
           done == [queue EXCEPT ![r] = CompletedWrite(@, pid, clock)]
           booking == p.appointmentId # ""
       IN
       /\ create_patient' = IF ack THEN create_patient \ {m}
                            ELSE create_patient
       /\ pubFails = "book" => booking
       /\ book_appointment' =
             IF booking /\ pubFails # "book"
             THEN book_appointment \cup
                     {BookingMsg(pid, p.appointmentId, r)}
             ELSE book_appointment
       /\ patient_activity' =
             IF pubFails = "none"
             THEN patient_activity \cup
                     {ActivityMsg(Some(pid), "PATIENT_CREATED")}
             ELSE patient_activity
       /\ IF pubFails = "none"
          THEN /\ queue' = done
               /\ UNCHANGED errors
               /\ ret' = [NoRet EXCEPT !.op = "createAthenaPatient",
                                       !.id = r, !.result = "ok",
                                       !.posted = TRUE]
          ELSE PatientCreationFailed(m, done, "Publish failed", TRUE)
    /\ cp' = IdleCp
    /\ UNCHANGED <<phoneStage, tokenStage, bookingStage>>
    /\ UNCHANGED <<clock, patients, bland_failed_calls, bland_incomplete,
                   webhook_errors, api_token, athena, pq, recon, requeues>>

(* ------------------ reconciler, scripts/test-flow.js ------------------ *)
SnapDoc(q, r) == [id |-> r, status |-> q[r].status,
                  processingStarted |-> q[r].processingStarted]

\* lines 54-57: where('status','in',['error','processing']).get()
StuckSnapshot(q) ==
    LET ids == IdsWhere(q, {"error", "processing"}, 1)
    IN  [k \in 1..Len(ids) |-> SnapDoc(q, ids[k])]

NeedsRequeue_ErrorOnly(data, fifteenMinutesAgo) ==
    data.status = "error"

\* line 68
NeedsRequeue(data, fifteenMinutesAgo) ==
    \/ data.status = "error"
    \/ /\ data.status = "processing"
       /\ data.processingStarted[1] < fifteenMinutesAgo

\* lines 70-75
ResetWrite(rec) ==
    [rec EXCEPT !.status = "pending", !.error = Null, !.errorAt = Null,
                !.processingStarted = Null]

\* lines 52-64
reconQuery ==
    /\ UNCHANGED cp
    /\ UNCHANGED phoneStage
    /\ recon.pc = "idle"
    /\ LET snap == StuckSnapshot(queue)
       IN  IF snap = <<>>
           THEN /\ UNCHANGED recon
                /\ ret' = [NoRet EXCEPT !.op = "reprocessFailedIntakes",
                                        !.result = "ok"]
           ELSE /\ recon' = [pc |-> "loop",
                             fifteenMinutesAgo |-> clock - FifteenMinutes,
                             snap |-> snap, i |-> 1]
                /\ UNCHANGED ret
    /\ UNCHANGED <<tokenStage, bookingStage>>
    /\ UNCHANGED <<clock, queue, stores, topics, athena, pq, requeues>>

\* lines 66-77: one iteration of the loop, on the snapshot's copy of the data
reconStep ==
    /\ UNCHANGED cp
    /\ UNCHANGED phoneStage
    /\ recon.pc = "loop"
    /\ LET data == recon.snap[recon.i]
           last == recon.i = Len(recon.snap)
       IN  /\ IF NeedsRequeue(data, recon.fifteenMinutesAgo)
              THEN /\ queue' = [queue EXCEPT ![data.id] = ResetWrite(@)]
                   /\ requeues' = [requeues EXCEPT
                                     ![data.id] = Bump(@, MaxRequeues)]
              ELSE UNCHANGED <<queue, requeues>>
           /\ recon' = [recon EXCEPT !.i = @ + 1,
                                     !.pc = IF last THEN "done" ELSE "loop"]
    /\ UNCHANGED <<tokenStage, bookingStage>>
    /\ UNCHANGED <<clock, stores, topics, athena, pq, ret>>

\* line 79: the pass returns
reconFinish ==
    /\ UNCHANGED cp
    /\ UNCHANGED phoneStage
    /\ recon.pc = "done"
    /\ recon' = IdleRecon
    /\ ret' = [NoRet EXCEPT !.op = "reprocessFailedIntakes", !.result = "ok"]
    /\ UNCHANGED <<tokenStage, bookingStage>>
    /\ UNCHANGED <<clock, queue, stores, topics, athena, pq, requeues>>

(* --------------- token refresh, unnamed/part_003 ---------------------- *)
\* data.expires_in of the provider's response, in minutes: absent, or a number
ExpiresInValues == {Null, Some(0), Some(5), Some(DefaultExpiresIn)}

\* the GET of line 25: it fails, or it answers with a token
ProviderResponses ==
    {[ok |-> FALSE, expires_in |-> Null]}
       \cup [ok : {TRUE}, expires_in : ExpiresInValues]

\* line 31: tokenResponse.data.expires_in || 3600
expiresIn(expires_in) ==
    IF expires_in = Null \/ expires_in[1] = 0
    THEN DefaultExpiresIn ELSE expires_in[1]

\* lines 30-54: tokenData; previous is the document read at line 50
TokenData(now, expires_in, previous) ==
    [token |-> "access_token",
     expiresAt |-> now + (expiresIn(expires_in) - SafetyBuffer),
     refreshCount |->
        Some(IF previous = Null THEN 0
             ELSE (IF previous[1].refreshCount = Null
                   THEN 0 ELSE previous[1].refreshCount[1]) + 1)]

\* invocation 1 is the scheduled refreshAthenaToken, the others are
\* refreshTokenHttp (lines 110-120), which calls it and answers 200 or 500
RefreshOp(i) == IF i = 1 THEN "refreshAthenaToken" ELSE "refreshTokenHttp"

RefreshRet(i, ok) ==
    [NoRet EXCEPT !.op = RefreshOp(i),
                  !.code = IF i = 1 THEN 0 ELSE IF ok THEN 200 ELSE 500,
                  !.result = IF ok THEN "ok"
                             ELSE IF i = 1 THEN "throw" ELSE "error"]

RefreshFailed_Erases(i) ==
    /\ errors' = AddError(errors, "token_refresh", 0)
    /\ error_notifications' = Bump(error_notifications, MaxLogged)
    /\ api_token' = Null
    /\ rt' = [rt EXCEPT ![i] = IdleRt]
    /\ ret' = RefreshRet(i, FALSE)

\* lines 77-103: the catch block
RefreshFailed(i) ==
    /\ errors' = AddError(errors, "token_refresh", 0)
    /\ error_notifications' = Bump(error_notifications, MaxLogged)
    /\ api_token' = api_token
    /\ rt' = [rt EXCEPT ![i] = IdleRt]
    /\ ret' = RefreshRet(i, FALSE)

\* lines 22-54: the GET answers, tokenData is built and the previous
\* document is read
rtFetch(i, resp) ==
    /\ UNCHANGED cp
    /\ UNCHANGED phoneStage
    /\ rt[i].pc = "idle"
    /\ IF ~resp.ok
       THEN RefreshFailed(i)
       ELSE /\ rt' = [rt EXCEPT ![i] =
                        [pc |-> "set", now |-> clock,
                         expires_in |-> resp.expires_in,
                         tokenData |->
                            Some(TokenData(clock, resp.expires_in,
                                           api_token))]]
            /\ UNCHANGED <<api_token, errors, error_notifications, ret>>
    /\ UNCHANGED <<clock, queue, patients, bland_failed_calls,
                   bland_incomplete, webhook_errors, topics, athena, pq,
                   recon, requeues, token_refresh_log, bookingStage>>

\* lines 57-75: the document is replaced, the refresh is logged
rtSet(i) ==
    /\ UNCHANGED cp
    /\ UNCHANGED phoneStage
    /\ rt[i].pc = "set"
    /\ api_token' = rt[i].tokenData
    /\ token_refresh_log' = Bump(token_refresh_log, MaxLogged)
    /\ rt' = [rt EXCEPT ![i] = IdleRt]
    /\ ret' = RefreshRet(i, TRUE)
    /\ UNCHANGED <<clock, queue, patients, errors, bland_failed_calls,
                   bland_incomplete, webhook_errors, topics, athena, pq,
                   recon, requeues, error_notifications, bookingStage>>

(* --------------- setup, setup/setup-firestore-collections.js ---------- *)
\* lines 94-103: the placeholder document
SetupToken(now) ==
    [token |-> "ENCRYPTED_TOKEN_PLACEHOLDER",
     expiresAt |-> now + SetupLifetime, refreshCount |-> Null]

\* setupCollections, as far as the state of the model goes: lines 93-103
\* set api_tokens/athena-current and lines 110-123 set
\* errors/_schema_example, with timestamp: new Date(); the documents it
\* writes to the other collections carry the id _schema_example, which is
\* none of Ids
setupCollections ==
    /\ UNCHANGED cp
    /\ UNCHANGED phoneStage
    /\ api_token' = Some(SetupToken(clock))
    /\ errors' = [errors EXCEPT ![SchemaExample] = Some(clock)]
    /\ ret' = [NoRet EXCEPT !.op = "setupCollections", !.result = "ok"]
    /\ UNCHANGED <<clock, queue, patients, bland_failed_calls,
                   bland_incomplete, webhook_errors, topics, athena, pq,
                   recon, requeues, tokenStage, bookingStage>>

(* ------------- booking, functions/appointment-booker ------------------ *)
\* what the remote API answers to the PUT: success, a failure, or 404 (the
\* appointment or the patient does not exist)
BookingOutcomes == {"ok", "fail", "notfound"}

BookingRet(op, id, result, posted) ==
    [NoRet EXCEPT !.op = op, !.id = id, !.result = result,
                  !.posted = posted]

\* lines 79-96: the catch block of bookAppointment
BookAppointmentFailed(b, posted) ==
    /\ errors' = AddError(errors, "appointment_booking", b.originalRecordId)
    /\ ret' = BookingRet("bookAppointment", b.originalRecordId, "throw",
                         posted)
    /\ UNCHANGED <<queue, appointments_added>>

\* lines 11-97.  b: the delivered message; remote: what the PUT does;
\* ack: the message leaves the topic
bookAppointment(b, remote, ack) ==
    /\ UNCHANGED cp
    /\ UNCHANGED phoneStage
    /\ b \in book_appointment
    /\ book_appointment' = IF ack THEN book_appointment \ {b}
                           ELSE book_appointment
    /\ IF api_token = Null
       THEN BookAppointmentFailed(b, FALSE)
       ELSE IF remote # "ok"
       THEN BookAppointmentFailed(b, TRUE)
       ELSE /\ queue' = [queue EXCEPT
                           ![b.originalRecordId].appointmentBooked = TRUE]
            /\ appointments_added' = Bump(appointments_added, MaxLogged)
            /\ ret' = BookingRet("bookAppointment", b.originalRecordId,
                                 "ok", TRUE)
            /\ UNCHANGED errors
    /\ UNCHANGED <<clock, patients, bland_failed_calls, bland_incomplete,
                   webhook_errors, api_token, create_patient,
                   patient_activity, athena, pq, recon, requeues,
                   tokenStage, appointments, appointment_log>>

\* lines 128-133: expiresAt <= now
TokenExpired(tok, now) == tok.expiresAt <= now

\* lines 227-265: the catch block of bookAthenaAppointment.  update() of an
\* appointments document that does not exist throws in its turn
BookAthenaAppointmentFailed(b, posted) ==
    /\ errors' = AddError(errors, "appointment_booking", b.originalRecordId)
    /\ appointments' =
          [appointments EXCEPT ![b.originalRecordId] =
              IF @ = Null THEN Null
              ELSE Some([status |-> "error", error |-> TRUE])]
    /\ ret' = BookingRet("bookAthenaAppointment", b.originalRecordId,
                         "throw", posted)
    /\ UNCHANGED appointment_log

\* lines 111-266
bookAthenaAppointment(b, remote, ack) ==
    /\ UNCHANGED cp
    /\ UNCHANGED phoneStage
    /\ b \in book_appointment
    /\ book_appointment' = IF ack THEN book_appointment \ {b}
                           ELSE book_appointment
    /\ IF api_token = Null
       THEN BookAthenaAppointmentFailed(b, FALSE)
       ELSE IF TokenExpired(api_token[1], clock)
       THEN BookAthenaAppointmentFailed(b, FALSE)
       ELSE IF remote # "ok"
       THEN BookAthenaAppointmentFailed(b, TRUE)
       ELSE /\ appointments' =
                  [appointments EXCEPT ![b.originalRecordId] =
                      Some([status |-> "booked",
                            error |-> IF @ = Null THEN FALSE
                                      ELSE @[1].error])]
            /\ appointment_log' = Bump(appointment_log, MaxLogged)
            /\ ret' = BookingRet("bookAthenaAppointment",
                                 b.originalRecordId, "ok", TRUE)
            /\ UNCHANGED errors
    /\ UNCHANGED <<clock, queue, patients, bland_failed_calls,
                   bland_incomplete, webhook_errors, api_token,
                   create_patient, patient_activity, athena, pq, recon,
                   requeues, tokenStage, appointments_added>>

(* ------------------------- specification ------------------------------ *)
RemoteOutcomes == {"new", "dup", "fail"}
\* the publish of createAthenaPatient that throws, or "none"
CreatorFails == {"none", "book", "activity"}

TestCall == [status |-> "completed", variables |-> FullVariables]
CompletedCalls == [status : {"completed"}, variables : VariableSets]

\* the whole workflow on MaxRecords records: accepted calls, every webhook
\* variant, concurrent dispatcher invocations, redelivery, the reconciler
\* the instants of the workflow: the start, and more than fifteen minutes on
WorkflowTimes == {0, FifteenMinutes + 1}

Next ==
    \/ Tick(WorkflowTimes)
    \/ /\ Len(queue) < MaxRecords
       /\ blandWebhookFunctions(TestCall, "none")
    \/ /\ Len(queue) < MaxRecords
       /\ \E req \in CompletedCalls : blandWebhookCleaned(req, FALSE)
    \/ /\ Len(queue) < MaxRecords
       /\ \E req \in CompletedCalls : blandWebhookSigned(req, FALSE)
    \/ \E i \in Invocations : pqQuery(i)
    \/ \E i \in Invocations : pqStep(i, FALSE)
    \/ \E m \in create_patient, remote \in RemoteOutcomes, ack \in BOOLEAN :
          createAthenaPatient(m, remote, "none", ack)
    \/ reconQuery
    \/ reconStep
    \/ reconFinish

Spec == Init /\ [][Next]_vars

\* the reconciler beside one dispatcher and the patient-creation stage, on
\* MaxQueue records
\* the instants around the reconciler's threshold
ReconTimes == {0, FifteenMinutes, FifteenMinutes + 1}

NextRecon ==
    \/ Tick(ReconTimes)
    \/ /\ Len(queue) < MaxQueue
       /\ blandWebhookCleaned(TestCall, FALSE)
    \/ pqQuery(1)
    \/ pqStep(1, FALSE)
    \/ \E m \in create_patient, remote \in {"new", "fail"} :
          createAthenaPatient(m, remote, "none", TRUE)
    \/ reconQuery
    \/ reconStep
    \/ reconFinish

SpecRecon == Init /\ [][NextRecon]_vars

\* the webhook variants alone: every call status, failing publishes
WebhookFails == {"none", "activity", "trigger"}

NextWebhook ==
    \/ /\ Len(queue) < MaxQueue
       /\ \E req \in Requests, f \in WebhookFails :
             blandWebhookFunctions(req, f)
    \/ /\ Len(queue) < MaxQueue
       /\ \E req \in Requests, f \in BOOLEAN : blandWebhookCleaned(req, f)
    \/ /\ Len(queue) < MaxQueue
       /\ \E req \in Requests, f \in BOOLEAN : blandWebhookSigned(req, f)
    \/ /\ Len(queue) < MaxQueue
       /\ \E req \in Requests : blandWebhookPipeline(req)
    \/ /\ Len(queue) < MaxQueue
       /\ \E req \in Requests, signature \in Signatures,
             webhookSecret \in BOOLEAN, f \in BOOLEAN :
             blandWebhookVerified(req, signature, webhookSecret, f)

SpecWebhook == Init /\ [][NextWebhook]_vars

\* the credential and its readers: setup, the scheduled and the manual
\* refresh, and the stages that call the remote API, on MaxRecords records
\* the instants of the first token's life: its start and its expiry
TokenTimes == {0, DefaultExpiresIn - SafetyBuffer}

\* the refresh counter stays within MaxRefreshes
RefreshAllowed ==
    IF api_token = Null THEN TRUE
    ELSE IF api_token[1].refreshCount = Null THEN TRUE
    ELSE api_token[1].refreshCount[1] < MaxRefreshes

NextToken ==
    \/ Tick(TokenTimes)
    \/ setupCollections
    \/ /\ RefreshAllowed
       /\ \E i \in Refreshers, resp \in ProviderResponses : rtFetch(i, resp)
    \/ \E i \in Refreshers : rtSet(i)
    \/ /\ Len(queue) < MaxRecords
       /\ blandWebhookSigned(TestCall, FALSE)
    \/ \E m \in create_patient, remote \in {"new", "fail"} :
          createAthenaPatient(m, remote, "none", TRUE)
    \/ \E b \in book_appointment, remote \in BookingOutcomes :
          bookAppointment(b, remote, TRUE)
    \/ \E b \in book_appointment, remote \in BookingOutcomes :
          bookAthenaAppointment(b, remote, TRUE)

SpecToken == Init /\ [][NextToken]_vars

\* the scheduled and the manual refresh alone
NextRefresh ==
    \/ Tick(TokenTimes)
    \/ /\ RefreshAllowed
       /\ \E i \in Refreshers, resp \in ProviderResponses : rtFetch(i, resp)
    \/ \E i \in Refreshers : rtSet(i)

SpecRefresh == Init /\ [][NextRefresh]_vars

\* the stages with their failures: failing publishes in the webhooks, the
\* dispatcher and the patient-creation stage, failing remote calls, and
\* redelivery, on MaxRecords records
NextFail ==
    \/ /\ Len(queue) < MaxRecords
       /\ \E req \in CompletedCalls, f \in WebhookFails :
             blandWebhookFunctions(req, f)
    \/ /\ Len(queue) < MaxRecords
       /\ \E req \in CompletedCalls, f \in BOOLEAN :
             blandWebhookCleaned(req, f)
    \/ /\ Len(queue) < MaxRecords
       /\ \E req \in CompletedCalls, f \in BOOLEAN :
             blandWebhookSigned(req, f)
    \/ pqQuery(1)
    \/ \E f \in BOOLEAN : pqStep(1, f)
    \/ \E m \in create_patient, remote \in {"new", "fail"},
          f \in CreatorFails, ack \in BOOLEAN :
          createAthenaPatient(m, remote, f, ack)
    \/ \E b \in book_appointment, remote \in BookingOutcomes :
          bookAppointment(b, remote, TRUE)
    \/ \E b \in book_appointment, remote \in BookingOutcomes :
          bookAthenaAppointment(b, remote, TRUE)

SpecFail == Init /\ [][NextFail]_vars

\* the workflow when nothing fails: calls that select an appointment, a
\* stored credential that stays valid, remote calls and publishes that
\* succeed, every message delivered once; the scheduled trigger keeps firing
\* and Pub/Sub keeps delivering
NextEndToEnd ==
    \/ /\ Len(queue) < MaxQueue
       /\ blandWebhookFunctions(TestCall, "none")
    \/ /\ Len(queue) < MaxQueue
       /\ blandWebhookCleaned(TestCall, FALSE)
    \/ /\ Len(queue) < MaxQueue
       /\ blandWebhookSigned(TestCall, FALSE)
    \/ pqQuery(1)
    \/ pqStep(1, FALSE)
    \/ \E m \in create_patient : createAthenaPatient(m, "new", "none", TRUE)
    \/ \E b \in book_appointment : bookAppointment(b, "ok", TRUE)
    \/ \E b \in book_appointment : bookAthenaAppointment(b, "ok", TRUE)

\* the credential is stored
InitEndToEnd == Init /\ api_token # Null

SpecEndToEnd ==
    /\ InitEndToEnd
    /\ [][NextEndToEnd]_vars
    /\ WF_vars(pqQuery(1))
    /\ WF_vars(pqStep(1, FALSE))
    /\ WF_vars(\E m \in create_patient :
                  createAthenaPatient(m, "new", "none", TRUE))
    /\ WF_vars(\E b \in book_appointment :
                  \/ bookAppointment(b, "ok", TRUE)
                  \/ bookAthenaAppointment(b, "ok", TRUE))

\* the workflow under fair scheduling: the trigger of the dispatcher keeps
\* firing, Pub/Sub keeps delivering, and the reconciler keeps being run;
\* remote calls succeed or fail
NextLive ==
    \/ Tick(ReconTimes)
    \/ /\ Len(queue) < MaxRecords
       /\ \E req \in CompletedCalls : blandWebhookFunctions(req, "none")
    \/ /\ Len(queue) < MaxRecords
       /\ \E req \in CompletedCalls : blandWebhookCleaned(req, FALSE)
    \/ /\ Len(queue) < MaxRecords
       /\ \E req \in CompletedCalls : blandWebhookSigned(req, FALSE)
    \/ pqQuery(1)
    \/ pqStep(1, FALSE)
    \/ \E m \in create_patient, remote \in {"new", "fail"} :
          createAthenaPatient(m, remote, "none", TRUE)
    \/ reconQuery
    \/ reconStep
    \/ reconFinish

SpecLive ==
    /\ Init
    /\ [][NextLive]_vars
    /\ WF_vars(pqQuery(1))
    /\ WF_vars(pqStep(1, FALSE))
    /\ WF_vars(\E m \in create_patient, remote \in {"new", "fail"} :
                  createAthenaPatient(m, remote, "none", TRUE))
    /\ WF_vars(reconQuery)
    /\ WF_vars(reconStep)
    /\ WF_vars(reconFinish)

\* one invocation of the dispatcher at a time, on a queue that holds up to
\* MaxPending pending documents (more than the limit of the query), with
\* publishes that succeed or throw
InitBatch ==
    /\ \E n \in 0..MaxPending :
          queue = [k \in 1..n |->
                      IntakeRecord(CleanedPatientData(FullVariables),
                                   "bland_ai", Null)]
    /\ clock = 0
    /\ patients = [r \in Ids |-> Null]
    /\ errors = [k \in ErrorKeys \cup {SchemaExample} |->
                    IF k = SchemaExample THEN Null ELSE 0]
    /\ bland_failed_calls = 0
    /\ bland_incomplete = 0
    /\ webhook_errors = 0
    /\ api_token = Some(FirstToken)
    /\ create_patient = {}
    /\ book_appointment = {}
    /\ patient_activity = {}
    /\ athena = [r \in Ids |-> 0]
    /\ pq = [i \in Invocations |-> IdlePq]
    /\ recon = IdleRecon
    /\ requeues = [r \in Ids |-> 0]
    /\ ret = NoRet
    /\ rt = [i \in Refreshers |-> IdleRt]
    /\ error_notifications = 0
    /\ token_refresh_log = 0
    /\ appointments = [r \in Ids |-> Null]
    /\ appointments_added = 0
    /\ appointment_log = 0
    /\ phone = GoodPhone
    /\ cleaned = Null
    /\ parsed = Null
    /\ cp = IdleCp

NextBatch ==
    \/ pqQuery(1)
    \/ \E f \in BOOLEAN : pqStep(1, f)
    \/ pqStepUpdateFails(1)

SpecBatch == InitBatch /\ [][NextBatch]_vars

\* the phone normalisers alone, on every string of at most MaxPhoneLen
\* digits drawn from PhoneDigits: 1 is the country code and, like 0, no
\* valid first or fourth digit; 2 and 9 are the ends of the valid range
PhoneDigits == {1, 2, 9}
PhoneInputs == UNION {[1..n -> PhoneDigits] : n \in 0..MaxPhoneLen}

InitPhone ==
    /\ phone \in PhoneInputs
    /\ cleaned = Null
    /\ parsed = Null
    /\ cp = IdleCp
    /\ clock = 0
    /\ queue = <<>>
    /\ patients = [r \in Ids |-> Null]
    /\ errors = [k \in ErrorKeys \cup {SchemaExample} |->
                    IF k = SchemaExample THEN Null ELSE 0]
    /\ bland_failed_calls = 0
    /\ bland_incomplete = 0
    /\ webhook_errors = 0
    /\ api_token = Some(FirstToken)
    /\ create_patient = {}
    /\ book_appointment = {}
    /\ patient_activity = {}
    /\ athena = [r \in Ids |-> 0]
    /\ pq = [i \in Invocations |-> IdlePq]
    /\ recon = IdleRecon
    /\ requeues = [r \in Ids |-> 0]
    /\ ret = NoRet
    /\ rt = [i \in Refreshers |-> IdleRt]
    /\ error_notifications = 0
    /\ token_refresh_log = 0
    /\ appointments = [r \in Ids |-> Null]
    /\ appointments_added = 0
    /\ appointment_log = 0

\* patient-creator, line 186: cleanPhone(patientData.phone)
callCleanPhone ==
    /\ UNCHANGED cp
    /\ cleaned = Null
    /\ cleaned' = Some(cleanPhone(phone))
    /\ UNCHANGED <<phone, parsed>>
    /\ UNCHANGED <<clock, queue, stores, topics, athena, pq, recon, requeues,
                   ret, tokenStage, bookingStage>>

\* bland-webhook, line 133: parsePhoneNumber(variables.phone || phone_number)
callParsePhoneNumber ==
    /\ UNCHANGED cp
    /\ parsed = Null
    /\ parsed' = Some(parsePhoneNumber(phone))
    /\ UNCHANGED <<phone, cleaned>>
    /\ UNCHANGED <<clock, queue, stores, topics, athena, pq, recon, requeues,
                   ret, tokenStage, bookingStage>>

NextPhone ==
    \/ callCleanPhone
    \/ callParsePhoneNumber

SpecPhone == InitPhone /\ [][NextPhone]_vars

\* the patient-creation stage step by step, with redelivery and failing
\* publishes, behind the webhook that publishes to create-patient itself and
\* the dispatcher, on MaxRecords records
NextSteps ==
    \/ /\ Len(queue) < MaxRecords
       /\ blandWebhookSigned(TestCall, FALSE)
    \/ pqQuery(1)
    \/ pqStep(1, FALSE)
    \/ \E m \in create_patient, remote \in {"new", "fail"}, ack \in BOOLEAN :
          cpPost(m, remote, ack)
    \/ \E f \in CreatorFails, ack \in BOOLEAN : cpFinish(f, ack)

SpecSteps == Init /\ [][NextSteps]_vars

\* the dispatcher with a publish that can fail, the patient-creation stage
\* and a reconciler that is run again and again while time passes; the
\* publish fails only before the clock has moved, so that the fifteen
\* minutes of the reconciler can pass within ReconTimes
NextStranded ==
    \/ Tick(ReconTimes)
    \/ /\ Len(queue) < MaxRecords
       /\ blandWebhookCleaned(TestCall, FALSE)
    \/ pqQuery(1)
    \/ pqStep(1, FALSE)
    \/ /\ clock = 0
       /\ pqStep(1, TRUE)
    \/ \E m \in create_patient, remote \in {"new", "fail"} :
          createAthenaPatient(m, remote, "none", TRUE)
    \/ reconQuery
    \/ reconStep
    \/ reconFinish

SpecStranded ==
    /\ Init
    /\ [][NextStranded]_vars
    /\ WF_vars(Tick(ReconTimes))
    /\ WF_vars(pqQuery(1))
    /\ WF_vars(pqStep(1, FALSE))
    /\ WF_vars(reconQuery)
    /\ WF_vars(reconStep)
    /\ WF_vars(reconFinish)

(* ============================ claims ================================== *)
Existing == 1..Len(queue)

\* C1: no invocation of processIntakeQueue claims (moves to processing and
\* publishes) a record that another invocation's claim already holds in
\* processing: a record is claimed by at most one of the concurrent
\* invocations.
C1_ExclusiveClaim ==
    [][\A i \in Invocations :
          pqStep(i, FALSE) => queue[Head(pq[i].docs)].status # "processing"]_vars

\* C2: a create-patient message delivered for a record that is already
\* completed makes createAthenaPatient a no-op: no patient-creation request
\* is sent and the intake record is left unchanged.
C2_RedeliveryIsNoOp ==
    [][\A m \in create_patient, remote \in RemoteOutcomes, ack \in BOOLEAN :
          (createAthenaPatient(m, remote, "none", ack)
             /\ queue[m.id].status = "completed")
          => (~ret'.posted /\ queue' = queue)]_vars

\* C3: no step takes an intake record from pending directly to completed.
C3_NoPendingToCompleted ==
    [][\A r \in Existing :
          queue[r].status = "pending" => queue'[r].status # "completed"]_vars

\* C4: a run of createAthenaPatient that repeats the terminal write the
\* record already carries (completed with the same remote patient id, or
\* error with the same error info) leaves the record exactly as it was.
C4_TerminalWritesIdempotent ==
    [][\A m \in create_patient, remote \in RemoteOutcomes, ack \in BOOLEAN :
          createAthenaPatient(m, remote, "none", ack) =>
             LET old == queue[m.id]
                 new == queue'[m.id]
             IN  /\ (old.status = "completed" /\ new.status = "completed"
                       /\ new.athenaPatientId = old.athenaPatientId)
                    => new = old
                 /\ (old.status = "error" /\ new.status = "error"
                       /\ new.error = old.error)
                    => new = old]_vars

\* a document that is in processing with processingStarted more than fifteen
\* minutes before `now`
Stuck(doc, now) ==
    /\ doc.status = "processing"
    /\ IsSet(doc.processingStarted)
    /\ now - doc.processingStarted[1] > FifteenMinutes

PassStart == recon.fifteenMinutesAgo + FifteenMinutes

C6_RequeueCapped ==
    \A r \in Ids : requeues[r] < MaxRequeues

\* C7: a record whose patient-creation attempt failed validation gets no
\* second attempt: at most one patient_creation ErrorRecord exists for it.
C7_ValidationNotRetried ==
    \A r \in Existing :
       (api_token # Null /\ ValidationError(queue[r].payload) # "")
       => errors[<<"patient_creation", r>>] <= 1

\* C8: no intake record has both completedAt and errorAt set.
C8_CompletedXorError ==
    \A r \in Existing :
       ~(IsSet(queue[r].completedAt) /\ IsSet(queue[r].errorAt))

\* C9: an intake record has processingStarted set exactly when its status is
\* processing.
C9_ProcessingStartedIffProcessing ==
    \A r \in Existing :
       IsSet(queue[r].processingStarted) <=> queue[r].status = "processing"

\* what C10 asks of a webhook step on a call that did not complete
RejectedAsFailedCall ==
    /\ queue' = queue
    /\ UNCHANGED topics
    /\ bland_failed_calls' = Bump(bland_failed_calls, MaxLogged)
    /\ ret'.code = 200 /\ ret'.result = "not_processed"

\* C10: in every webhook variant a request whose call status is neither
\* completed nor success creates no intake record, publishes nothing, is
\* logged to bland_failed_calls and is answered with processed:false.
C10_FailedCallRejected ==
    [][\A req \in Requests :
          (req.status # "completed" /\ req.status # "success") =>
             /\ \A f \in WebhookFails :
                   blandWebhookFunctions(req, f) => RejectedAsFailedCall
             /\ \A f \in BOOLEAN :
                   blandWebhookCleaned(req, f) => RejectedAsFailedCall
             /\ \A f \in BOOLEAN :
                   blandWebhookSigned(req, f) => RejectedAsFailedCall]_vars

\* what C11 asks a webhook to reject
LacksNameOrBirthDate(v) ==
    v.first_name = "" \/ v.last_name = "" \/ parseDate(v.date_of_birth) = ""

\* C11: in every webhook variant a request without a non-empty first name,
\* a non-empty last name or a parseable birth date is rejected before
\* enqueue: the step creates no intake record.
C11_InvalidRejected ==
    [][\A req \in Requests :
          LacksNameOrBirthDate(req.variables) =>
             /\ \A f \in WebhookFails :
                   blandWebhookFunctions(req, f) => queue' = queue
             /\ \A f \in BOOLEAN :
                   blandWebhookCleaned(req, f) => queue' = queue
             /\ \A f \in BOOLEAN :
                   blandWebhookSigned(req, f) => queue' = queue]_vars

\* C12: a run of createAthenaPatient on a message without a birth date
\* fails, leaves the intake record in status error, sends no request to the
\* remote API and publishes no book-appointment message.
C12_MissingDobFails ==
    [][\A m \in create_patient, remote \in RemoteOutcomes,
          f \in CreatorFails, ack \in BOOLEAN :
          (createAthenaPatient(m, remote, f, ack) /\ m.payload.dateOfBirth = "")
          => /\ ret'.result = "throw"
             /\ queue'[m.id].status = "error"
             /\ ~ret'.posted
             /\ book_appointment' = book_appointment]_vars

\* createAthenaPatient has failed validation on a record without birth date
C12_Witness ==
    /\ ret.op = "createAthenaPatient"
    /\ ret.result = "throw"
    /\ ~ret.posted
    /\ api_token # Null
    /\ queue[ret.id].payload.dateOfBirth = ""
    /\ queue[ret.id].status = "error"
    /\ queue[ret.id].error = Some("Missing required fields")
    /\ book_appointment = {}

\* the credential document is absent, or its expiresAt is not later than now
CredentialUnusable ==
    IF api_token = Null THEN TRUE ELSE api_token[1].expiresAt <= clock

\* C13: createAthenaPatient sends no patient-creation request while the
\* credential document is absent or expired; it fails instead.
C13_NoPostWithoutCredential ==
    [][\A m \in create_patient, remote \in RemoteOutcomes,
          f \in CreatorFails, ack \in BOOLEAN :
          (createAthenaPatient(m, remote, f, ack) /\ CredentialUnusable)
          => (~ret'.posted /\ ret'.result = "throw")]_vars

\* C14: neither bookAppointment nor bookAthenaAppointment sends the booking
\* PUT while the credential document is absent or expired; the handler fails
\* instead.
C14_NoPutWithoutCredential ==
    [][\A b \in book_appointment, remote \in BookingOutcomes,
          ack \in BOOLEAN :
          CredentialUnusable =>
             /\ bookAppointment(b, remote, ack)
                   => (~ret'.posted /\ ret'.result = "throw")
             /\ bookAthenaAppointment(b, remote, ack)
                   => (~ret'.posted /\ ret'.result = "throw")]_vars

C16_OnlyRefreshWritesCredential ==
    [][api_token' # api_token => \E i \in Refreshers : rtSet(i)]_vars

\* previousData.refreshCount || 0 of a stored credential
StoredCount(tok) ==
    IF tok.refreshCount = Null THEN 0 ELSE tok.refreshCount[1]

\* C17: every successful refresh of a stored credential, whatever other
\* refresh runs beside it, leaves the refresh counter one higher than it
\* was.
C17_RefreshCountsEveryRefresh ==
    [][\A i \in Refreshers :
          (rtSet(i) /\ api_token # Null)
          => api_token'[1].refreshCount =
                Some(StoredCount(api_token[1]) + 1)]_vars

\* expires_in as C18 reads a response: the number it carries, 3600 s when
\* it carries none
StatedExpiresIn(expires_in) ==
    IF expires_in = Null THEN DefaultExpiresIn ELSE expires_in[1]

\* C18: the stored expiresAt is the time of the refresh plus the provider's
\* expires_in less the safety buffer, for every expires_in >= 0.
C18_ExpiryIsBuffered ==
    [][\A i \in Refreshers :
          rtSet(i) => api_token'[1].expiresAt =
                         rt[i].now + (StatedExpiresIn(rt[i].expires_in)
                                         - SafetyBuffer)]_vars

\* the functions webhook gets as far as its publishes on this request
FunctionsPublishes(req) ==
    /\ req.status \in {"completed", "success"}
    /\ FunctionsValid(FunctionsPatientData(req.variables))

\* C19: a handler in which a publish fails (a webhook variant,
\* processIntakeQueue, createAthenaPatient) ends with HTTP 500 or a thrown
\* error, never with success.
C19_PublishFailureSurfaces ==
    [][/\ \A req \in Requests :
             /\ \A f \in WebhookFails \ {"none"} :
                   (blandWebhookFunctions(req, f) /\ FunctionsPublishes(req))
                   => ret'.code = 500
             /\ blandWebhookCleaned(req, TRUE) => ret'.code = 500
             /\ blandWebhookSigned(req, TRUE) => ret'.code = 500
       /\ \A i \in Invocations : pqStep(i, TRUE) => ret'.result = "throw"
       /\ \A m \in create_patient, remote \in RemoteOutcomes \ {"fail"},
             f \in CreatorFails \ {"none"}, ack \in BOOLEAN :
             (createAthenaPatient(m, remote, f, ack)
                /\ PreflightError(m.payload) = "")
             => ret'.result = "throw"]_vars

\* createAthenaPatient has thrown after its own completed write: a publish
\* after the remote call failed
C19_Witness ==
    /\ ret.op = "createAthenaPatient"
    /\ ret.result = "throw"
    /\ ret.posted
    /\ queue[ret.id].status = "error"
    /\ queue[ret.id].error = Some("Publish failed")
    /\ IsSet(queue[ret.id].athenaPatientId)

\* C20: whenever the dispatcher, the patient-creation stage or a booking
\* handler fails while working on an intake record, an errors document is
\* written and the record's status becomes error.
C20_FailureSetsError ==
    [][/\ \A i \in Invocations :
             pqStep(i, TRUE) =>
                /\ errors'[<<"intake_processing", 0>>] =
                      Bump(errors[<<"intake_processing", 0>>], MaxErrors)
                /\ queue'[Head(pq[i].docs)].status = "error"
       /\ \A m \in create_patient, remote \in RemoteOutcomes,
             f \in CreatorFails, ack \in BOOLEAN :
             (createAthenaPatient(m, remote, f, ack)
                /\ ret'.result = "throw")
             => /\ errors'[<<"patient_creation", m.id>>] =
                      Bump(errors[<<"patient_creation", m.id>>], MaxErrors)
                /\ queue'[m.id].status = "error"
       /\ \A b \in book_appointment, remote \in BookingOutcomes,
             ack \in BOOLEAN :
             ((bookAppointment(b, remote, ack)
                 \/ bookAthenaAppointment(b, remote, ack))
                /\ ret'.result = "throw")
             => /\ errors'[<<"appointment_booking", b.originalRecordId>>] =
                      Bump(errors[<<"appointment_booking",
                                    b.originalRecordId>>], MaxErrors)
                /\ queue'[b.originalRecordId].status = "error"]_vars

\* C21: a booking that succeeds for the message of record r leaves an
\* appointment confirmation document keyed by r, with status booked, and
\* publishes a message to patient-activity.
C21_BookingConfirmsAndLogs ==
    [][\A b \in book_appointment, remote \in BookingOutcomes,
          ack \in BOOLEAN :
          ((bookAppointment(b, remote, ack)
              \/ bookAthenaAppointment(b, remote, ack))
             /\ ret'.result = "ok")
          => /\ appointments'[b.originalRecordId] # Null
             /\ appointments'[b.originalRecordId][1].status = "booked"
             /\ patient_activity' # patient_activity]_vars

\* C22: when the remote API answers that the appointment or the patient does
\* not exist, the booking handler ends without throwing, so that the message
\* is not redelivered.
C22_NotFoundNotRetried ==
    [][\A b \in book_appointment, ack \in BOOLEAN :
          (bookAppointment(b, "notfound", ack)
             \/ bookAthenaAppointment(b, "notfound", ack))
          => ret'.result # "throw"]_vars

\* the booking of record r is confirmed: the intake record is marked as
\* booked, or appointments/r has status booked
Confirmed(r) ==
    \/ queue[r].appointmentBooked
    \/ IF appointments[r] = Null THEN FALSE
       ELSE appointments[r][1].status = "booked"

\* C23: a record created pending by a webhook call that selects an
\* appointment, with a valid credential, remote calls that succeed and fair
\* delivery, is eventually completed with a remote patient id and a
\* booking confirmation linked to it.
C23_EndToEnd ==
    \A r \in Ids :
       (r \in Existing /\ queue[r].status = "pending")
          ~> (/\ r \in Existing
              /\ queue[r].status = "completed"
              /\ IsSet(queue[r].athenaPatientId)
              /\ Confirmed(r))

C25_BookingPublishedIffCreated ==
    [][\A m \in create_patient, remote \in RemoteOutcomes,
          f \in CreatorFails, ack \in BOOLEAN :
          createAthenaPatient(m, remote, f, ack)
          => book_appointment' =
                IF /\ ret'.posted /\ remote # "fail"
                   /\ m.payload.appointmentId # ""
                   /\ f # "book"
                THEN book_appointment \cup
                        {[patientId |-> queue'[m.id].athenaPatientId[1],
                          appointmentId |-> m.payload.appointmentId,
                          originalRecordId |-> m.id]}
                ELSE book_appointment]_vars

\* a run has just succeeded and its booking message is in the topic
C25_Witness ==
    /\ ret.op = "createAthenaPatient"
    /\ ret.result = "ok"
    /\ \E b \in book_appointment :
          /\ b.originalRecordId = ret.id
          /\ b.appointmentId = "12345"
          /\ queue[ret.id].athenaPatientId = Some(b.patientId)

\* C26: every message in book-appointment names a record on which a remote
\* patient id is recorded, and carries that very id; so booking never runs
\* for a record before its patient was created.
C26_BookingAfterCreation ==
    \A b \in book_appointment :
       /\ b.originalRecordId \in Existing
       /\ queue[b.originalRecordId].athenaPatientId = Some(b.patientId)

\* C27: one invocation of processIntakeQueue takes at most 10 documents, all
\* of them pending when it queries; for each it sets status processing and
\* processingStarted and then publishes one create-patient message with the
\* document's id (a publish that throws leaves the document processing with
\* no message); when it returns it reports as processed the number of
\* documents it took.
C27_BatchOfTen ==
    [][\A i \in Invocations :
          /\ pqQuery(i) =>
                IF pq'[i].pc = "loop"
                THEN /\ pq'[i].size = Len(pq'[i].docs)
                     /\ pq'[i].size <= 10
                     /\ \A k \in 1..Len(pq'[i].docs) :
                           queue[pq'[i].docs[k]].status = "pending"
                ELSE ret'.processed = 0
          /\ pqStep(i, FALSE) =>
                LET r == Head(pq[i].docs)
                IN  /\ queue'[r].status = "processing"
                    /\ IsSet(queue'[r].processingStarted)
                    /\ \E m \in create_patient' :
                          /\ m.id = r
                          /\ create_patient' = create_patient \cup {m}
                    /\ pq'[i].pc = "idle" =>
                          /\ ret'.result = "ok"
                          /\ ret'.processed = pq[i].size
          /\ pqStep(i, TRUE) =>
                /\ queue'[Head(pq[i].docs)].status = "processing"
                /\ create_patient' = create_patient]_vars

\* an invocation has returned {processed: 10} and left the eleventh
\* document pending
C27_Witness ==
    /\ ret.op = "processIntakeQueue"
    /\ ret.result = "ok"
    /\ ret.processed = 10
    /\ Len(queue) > 10
    /\ queue[11].status = "pending"
    /\ \A r \in 1..10 : queue[r].status = "processing"
    /\ Cardinality(create_patient) = 10

\* C28: a webhook that answers 200 with success: true and patientQueueId q
\* has, in the same call, created the intake document q with status pending;
\* it answers without the patient having been created.
C28_SuccessMeansQueued ==
    [][\A req \in Requests :
          ((\/ \E f \in WebhookFails : blandWebhookFunctions(req, f)
            \/ \E f \in BOOLEAN : blandWebhookCleaned(req, f)
            \/ \E f \in BOOLEAN : blandWebhookSigned(req, f)
            \/ blandWebhookPipeline(req))
             /\ ret'.code = 200 /\ ret'.result = "success")
          => /\ ret'.id = Len(queue) + 1
             /\ Len(queue') = Len(queue) + 1
             /\ queue'[ret'.id].status = "pending"
             /\ queue'[ret'.id].athenaPatientId = Null
             /\ patients' = patients
             /\ athena' = athena]_vars

\* a webhook has just answered success for the second document of the queue
C28_Witness ==
    /\ ret.op = "blandWebhook"
    /\ ret.code = 200
    /\ ret.result = "success"
    /\ ret.id = 2
    /\ Len(queue) = 2
    /\ queue[2].status = "pending"

\* C29: the errors collection is append-only: every step only adds
\* documents to it; no document it holds is deleted or written again.
C29_ErrorsAppendOnly ==
    [][/\ \A k \in ErrorKeys : errors'[k] >= errors[k]
       /\ errors[SchemaExample] # Null
             => errors'[SchemaExample] = errors[SchemaExample]]_vars

\* the rules of the North American numbering plan the normalisers apply:
\* 10 digits, the first and the fourth in 2..9
Nanp(d) ==
    /\ Len(d) = 10
    /\ d[1] \in 2..9
    /\ d[4] \in 2..9

\* an 11-digit string that begins with 1, without its first digit
Stripped(d) == IF Len(d) = 11 /\ d[1] = 1 THEN Tail(d) ELSE d

\* C30: for every digit string, cleanPhone and parsePhoneNumber return the
\* trailing 10 digits of an 11-digit input that begins with 1, provided
\* these 10 digits have their first and fourth digit in 2..9, and return the
\* empty string for every input that, after that stripping, is not 10 digits
\* with the first and the fourth in 2..9.
C30_PhoneNormalised ==
    \A out \in {cleaned, parsed} :
       out # Null =>
          /\ (Len(phone) = 11 /\ phone[1] = 1 /\ Nanp(Tail(phone)))
                => out[1] = Tail(phone)
          /\ ~Nanp(Stripped(phone)) => out[1] = <<>>

\* C30 as it is stated: every 11-digit input that begins with 1 gives its
\* trailing 10 digits.
C30_AsStated ==
    \A out \in {cleaned, parsed} :
       out # Null =>
          /\ (Len(phone) = 11 /\ phone[1] = 1) => out[1] = Tail(phone)
          /\ ~Nanp(Stripped(phone)) => out[1] = <<>>

\* both normalisers have returned the trailing 10 digits of an 11-digit
\* input that begins with 1
C30_Witness ==
    /\ Len(phone) = 11
    /\ phone[1] = 1
    /\ cleaned = Some(Tail(phone))
    /\ parsed = Some(Tail(phone))
    /\ Len(cleaned[1]) = 10

\* C31: completed is terminal: no step changes the status of a record that
\* is completed, and a run of createAthenaPatient that has written completed
\* leaves the record completed even when one of its publishes fails.
C31_CompletedIsTerminal ==
    [][/\ \A r \in Existing :
             queue[r].status = "completed" => queue'[r].status = "completed"
       /\ \A m \in create_patient, f \in CreatorFails, ack \in BOOLEAN :
             (createAthenaPatient(m, "new", f, ack) /\ ret'.posted)
                => queue'[m.id].status = "completed"]_vars

\* C32: one intake record never yields two remote patients: at most one POST
\* succeeds against the remote API per record.
C32_OneRemotePatient ==
    \A r \in Ids : athena[r] <= 1

\* C33: in every state, a record with status error has at least one errors
\* document of type patient_creation written for it.
C33_ErrorHasErrorRecord ==
    \A r \in Existing :
       queue[r].status = "error" => errors[<<"patient_creation", r>>] >= 1

\* a run of createAthenaPatient has just thrown and left the record in error
C33_Witness ==
    /\ ret.op = "createAthenaPatient"
    /\ ret.result = "throw"
    /\ queue[ret.id].status = "error"
    /\ errors[<<"patient_creation", ret.id>>] >= 1

\* C34: in every state, a completed record carries a remote patient id, and
\* the patients document of the record carries the same id.
C34_CompletedHasPatient ==
    \A r \in Existing :
       queue[r].status = "completed"
          => /\ IsSet(queue[r].athenaPatientId)
             /\ patients[r] = queue[r].athenaPatientId

\* record r is in processing and no create-patient message for it is in
\* the topic
Stranded(r) ==
    /\ r \in Existing
    /\ queue[r].status = "processing"
    /\ \A m \in create_patient : m.id # r

C36_ErrorMeansNothingStored ==
    [][\A req \in Requests :
          ((\/ \E f \in WebhookFails : blandWebhookFunctions(req, f)
            \/ \E f \in BOOLEAN : blandWebhookCleaned(req, f)
            \/ \E f \in BOOLEAN : blandWebhookSigned(req, f)
            \/ blandWebhookPipeline(req))
             /\ ret'.code = 500)
          => /\ queue' = queue
             /\ topics' = topics]_vars

\* C37: with a webhook secret configured, the signature-checking webhook
\* creates an intake record and publishes to create-patient only for a
\* request whose x-bland-signature is the HMAC of the body: a request with
\* a wrong signature or with no signature header creates no record.
C37_UnsignedCreatesNothing ==
    [][\A req \in Requests, signature \in Signatures \ {"valid"},
          f \in BOOLEAN :
          blandWebhookVerified(req, signature, TRUE, f)
          => /\ queue' = queue
             /\ create_patient' = create_patient]_vars

\* C38: when a run of processIntakeQueue fails at the k-th document of its
\* snapshot (the update or the publish throws), every document after the
\* k-th is left as it was, in pending; every document before the k-th is in
\* processing and its create-patient message is published; and no document
\* of the snapshot is in processing without a published message unless it
\* is the k-th.
C38_PartialBatch ==
    [][\A i \in Invocations :
          (pqStep(i, TRUE) \/ pqStepUpdateFails(i))
          => LET snap == pq[i].snap
                 k == pq[i].processedCount + 1
             IN  /\ snap[k] = Head(pq[i].docs)
                 /\ \A j \in (k + 1)..Len(snap) :
                       /\ queue'[snap[j]] = queue[snap[j]]
                       /\ queue'[snap[j]].status = "pending"
                 /\ \A j \in 1..(k - 1) :
                       /\ queue'[snap[j]].status = "processing"
                       /\ \E m \in create_patient' : m.id = snap[j]
                 /\ \A j \in 1..Len(snap) :
                       queue'[snap[j]].status = "processing"
                          => \/ j = k
                             \/ \E m \in create_patient' : m.id = snap[j]
                 /\ create_patient' = create_patient]_vars

\* a run has failed at its third document of at least four
C38_Witness ==
    /\ ret.op = "processIntakeQueue"
    /\ ret.result = "throw"
    /\ ret.id = 3
    /\ Len(queue) >= 4
    /\ queue[1].status = "processing"
    /\ queue[2].status = "processing"
    /\ queue[3].status = "processing"
    /\ queue[4].status = "pending"
    /\ {m.id : m \in create_patient} = {1, 2}

\* C39: a step of the reconciler leaves unchanged every record that is
\* pending, completed, or in processing for 15 minutes or less when it is
\* written; a record it does reset differs from what it was only in
\* status, error, errorAt and processingStarted.
C39_ReconcilerFrame ==
    [][reconStep =>
          \A r \in Existing :
             /\ (\/ queue[r].status \in {"pending", "completed"}
                 \/ /\ queue[r].status = "processing"
                    /\ ~Stuck(queue[r], clock))
                   => queue'[r] = queue[r]
             /\ queue'[r] # queue[r]
                   => queue'[r] =
                         [queue[r] EXCEPT
                            !.status = queue'[r].status,
                            !.error = queue'[r].error,
                            !.errorAt = queue'[r].errorAt,
                            !.processingStarted =
                               queue'[r].processingStarted]]_vars

====
